---------------------------- MODULE Spec2Model ----------------------------
(***************************************************************************)
(* FlameWire API (src/main.py): the mock JSON-RPC proxy POST               *)
(* /api/rpc/{chain}, the contact form POST /api/contact and GET            *)
(* /api/chains, as a state machine of workers that receive a request, run  *)
(* the handler and send the response.                                      *)
(*                                                                         *)
(* Strings the code inspects (chain codes, method names, ids) are          *)
(* sequences of one-character strings, so that str.lower() is computed     *)
(* character by character.  Strings the code only passes along ("2.0", the *)
(* note, the 404 detail) are TLA+ strings.  A Python value of type Any or  *)
(* Optional is a tagged record [t |-> type, v |-> value]; None is          *)
(* [t |-> "None"].  A JSON request body is a record whose domain is the    *)
(* set of fields the client sent.                                          *)
(***************************************************************************)
EXTENDS Integers, Sequences, FiniteSets, TLC

VARIABLES
    SUPPORTED_CHAINS,   \* the module-level list of chains (a mutable Python list)
    db,                 \* the module-level database handle, None when unavailable
    database_imported,  \* whether `from database import db, create_document` succeeded
    request,            \* request[w]: the request worker w is serving, or NoRequest
    response,           \* response[w]: the handler's outcome not yet sent, or NoResponse
    create_document_result  \* [w]: what the handler's call of create_document did

vars ==
    <<SUPPORTED_CHAINS, db, database_imported, request, response,
      create_document_result>>

---------------------------------------------------------------------------
(* Python values *)

None == [t |-> "None"]
PyStr(s) == [t |-> "str", v |-> s]
PyInt(n) == [t |-> "int", v |-> n]
PyBool(b) == [t |-> "bool", v |-> b]
PyList(s) == [t |-> "list", v |-> s]
PyDict(d) == [t |-> "dict", v |-> d]
PyObject(name) == [t |-> "object", v |-> name]

\* bool(v), the truth value Python gives v
Truthy(v) ==
    CASE v.t = "None" -> FALSE
      [] v.t = "bool" -> v.v
      [] v.t = "int" -> v.v # 0
      [] v.t = "str" -> Len(v.v) # 0
      [] v.t = "list" -> Len(v.v) # 0
      [] v.t = "dict" -> DOMAIN v.v # {}
      [] OTHER -> TRUE

\* The cased letters of ASCII, by position.
UpperLetters ==
    <<"A", "B", "C", "D", "E", "F", "G", "H", "I", "J", "K", "L", "M",
      "N", "O", "P", "Q", "R", "S", "T", "U", "V", "W", "X", "Y", "Z">>
LowerLetters ==
    <<"a", "b", "c", "d", "e", "f", "g", "h", "i", "j", "k", "l", "m",
      "n", "o", "p", "q", "r", "s", "t", "u", "v", "w", "x", "y", "z">>

\* The non-ASCII characters of the inputs, named by code point: U+212A KELVIN
\* SIGN lowercases to "k", U+0130 (capital I with dot above) lowercases to
\* the two characters "i", U+0307.
LowerChar(c) ==
    IF \E i \in DOMAIN UpperLetters : UpperLetters[i] = c
    THEN <<LowerLetters[CHOOSE i \in DOMAIN UpperLetters : UpperLetters[i] = c]>>
    ELSE IF c = "U+212A" THEN <<"k">>
    ELSE IF c = "U+0130" THEN <<"i", "U+0307">>
    ELSE <<c>>

\* str.lower()
RECURSIVE str_lower(_)
str_lower(s) ==
    IF s = <<>> THEN <<>> ELSE LowerChar(Head(s)) \o str_lower(Tail(s))

---------------------------------------------------------------------------
(* Static data *)

eth == <<"e", "t", "h">>
bittensor == <<"b", "i", "t", "t", "e", "n", "s", "o", "r">>
sui == <<"s", "u", "i">>
dot == <<"d", "o", "t">>
sol == <<"s", "o", "l">>

\* The literal SUPPORTED_CHAINS is bound to when the module is loaded.
ChainRegistry ==
    << [name |-> "Ethereum", code |-> eth],
       [name |-> "Bittensor", code |-> bittensor],
       [name |-> "Sui", code |-> sui],
       [name |-> "Polkadot", code |-> dot],
       [name |-> "Solana", code |-> sol] >>

eth_blocknumber ==
    <<"e", "t", "h", "_", "b", "l", "o", "c", "k", "n", "u", "m", "b", "e", "r">>
sui_getlatestcheckpointsequence ==
    <<"s", "u", "i", "_", "g", "e", "t", "l", "a", "t", "e", "s", "t", "c", "h",
      "e", "c", "k", "p", "o", "i", "n", "t", "s", "e", "q", "u", "e", "n", "c", "e">>
subnet_get_state ==
    <<"s", "u", "b", "n", "e", "t", ".", "g", "e", "t", "_", "s", "t", "a", "t", "e">>

hex_12ab34 == <<"0", "x", "1", "2", "a", "b", "3", "4">>

MockNote == "Mock response. Connect real nodes/providers to enable live routing."

---------------------------------------------------------------------------
(* Requests and responses *)

NoRequest == [op |-> "none"]
NoResponse == [kind |-> "none"]

\* class RPCRequest: the model pydantic builds from a JSON body, with the
\* class's defaults for the fields the body leaves out.
RPCRequest(body) ==
    [ jsonrpc |-> IF "jsonrpc" \in DOMAIN body THEN body.jsonrpc ELSE "2.0",
      method |-> body.method,
      params |-> IF "params" \in DOMAIN body THEN body.params ELSE None,
      id |-> IF "id" \in DOMAIN body THEN body.id ELSE PyInt(1) ]

\* class RPCResponse
RPCResponse(jsonrpc, id, result) ==
    [jsonrpc |-> jsonrpc, id |-> id, result |-> result]

\* A handler's return value, sent with status 200.
Ok(body) == [status |-> 200, body |-> body]

\* raise HTTPException(status_code=..., detail=...)
HTTPException(status_code, detail) == [status |-> status_code, detail |-> detail]

---------------------------------------------------------------------------
(* proxy_rpc *)

\* codes = {c["code"] for c in SUPPORTED_CHAINS}
Codes(registry) == {registry[i].code : i \in DOMAIN registry}

\* A faulty variant: the chain code is matched ignoring case.
IsSupported_caseInsensitive(chain, registry) == str_lower(chain) \in Codes(registry)

\* chain in codes
IsSupported(chain, registry) == chain \in Codes(registry)

\* A faulty variant: the method is compared as sent, without .lower().
NormalizedMethod_asSent(payload) ==
    IF payload # None THEN payload.method ELSE <<>>

\* method = (payload.method or "").lower() if payload else ""
\* (an RPCRequest instance is always true: the test is `payload is not None`;
\* an empty method is already "")
NormalizedMethod(payload) ==
    IF payload # None THEN str_lower(payload.method) ELSE <<>>

\* A faulty variant: `payload.id or 1`, which replaces every falsy id.
ResolveId_truthy(payload) ==
    IF payload # None /\ Truthy(payload.id) THEN payload.id ELSE PyInt(1)

\* rid = payload.id if payload and payload.id is not None else 1
ResolveId(payload) ==
    IF payload # None /\ payload.id # None THEN payload.id ELSE PyInt(1)

\* A faulty variant: the echo carries the normalized method.
EchoMethod_normalized(payload) ==
    IF payload # None THEN PyStr(str_lower(payload.method)) ELSE None

\* "method": payload.method if payload else None
EchoMethod(payload) ==
    IF payload # None THEN PyStr(payload.method) ELSE None

\* A faulty variant: `payload.params if payload else []`, which echoes null
\* params as null.
EchoParams_unguarded(payload) ==
    IF payload # None THEN payload.params ELSE PyList(<<>>)

\* "params": payload.params if payload and payload.params else []
EchoParams(payload) ==
    IF payload # None /\ Truthy(payload.params) THEN payload.params ELSE PyList(<<>>)

\* A faulty variant: an unknown method is an error.
EchoResponse_methodNotFound(chain, payload, rid) ==
    HTTPException(400, "Method not found")

\* A faulty variant: the fallback answers with the request's jsonrpc.
EchoResponse_requestJsonrpc(chain, payload, rid) ==
    Ok(RPCResponse(IF payload # None THEN payload.jsonrpc ELSE "2.0", rid,
        PyDict([ echo |-> PyDict([ chain |-> PyStr(chain),
                                   method |-> EchoMethod(payload),
                                   params |-> EchoParams(payload) ]),
                 note |-> MockNote ])))

\* The final return of proxy_rpc: the echo fallback.
EchoResponse(chain, payload, rid) ==
    Ok(RPCResponse("2.0", rid,
        PyDict([ echo |-> PyDict([ chain |-> PyStr(chain),
                                   method |-> EchoMethod(payload),
                                   params |-> EchoParams(payload) ]),
                 note |-> MockNote ])))

\* The three canned (chain, method) pairs, then the fallback.
Dispatch(chain, payload) ==
    LET method == NormalizedMethod(payload)
        rid == ResolveId(payload)
    IN  IF chain = eth /\ method = eth_blocknumber
        THEN Ok(RPCResponse("2.0", rid, PyStr(hex_12ab34)))
        ELSE IF chain = sui /\ method = sui_getlatestcheckpointsequence
        THEN Ok(RPCResponse("2.0", rid, PyInt(123456)))
        ELSE IF chain = bittensor /\ method = subnet_get_state
        THEN Ok(RPCResponse("2.0", rid, PyDict([subnets |-> PyInt(32)])))
        ELSE EchoResponse(chain, payload, rid)

\* def proxy_rpc(chain, payload), reading the registry it is given
proxy_rpc(chain, payload, registry) ==
    IF ~IsSupported(chain, registry)
    THEN HTTPException(404, "Unsupported chain")
    ELSE Dispatch(chain, payload)

\* A faulty variant: the parameter's default is an empty RPCRequest, not None.
Payload_defaultRequest(req) ==
    IF "body" \in DOMAIN req THEN RPCRequest(req.body) ELSE RPCRequest([method |-> <<>>])

\* The payload argument FastAPI passes: the parsed body, or the parameter's
\* default None when the request has no body.
Payload(req) == IF "body" \in DOMAIN req THEN RPCRequest(req.body) ELSE None

---------------------------------------------------------------------------
(* submit_contact *)

NotCalled == [called |-> FALSE]
Returned(v) == [called |-> TRUE, raised |-> FALSE, value |-> v]
Raised == [called |-> TRUE, raised |-> TRUE]

doc_id_65f1c0 == <<"6", "5", "f", "1", "c", "0">>

\* What a call of create_document can do: the database module's function
\* returns a document id (or an empty or missing one) or raises an
\* Exception; the stub defined when the import fails returns None.
CreateDocumentOutcomes(imported) ==
    IF imported
    THEN {Returned(PyStr(doc_id_65f1c0)), Returned(PyStr(<<>>)), Returned(None), Raised}
    ELSE {Returned(None)}

\* try: if db is not None: doc_id = create_document(...)
\* except Exception: doc_id = None
DocId(outcome) ==
    IF outcome.called /\ ~outcome.raised THEN outcome.value ELSE None

\* A faulty variant: "stored": doc_id is not None.
ContactResponse_notNone(doc_id) ==
    Ok([status |-> "ok", stored |-> (doc_id # None), id |-> doc_id])

\* return {"status": "ok", "stored": bool(doc_id), "id": doc_id}
ContactResponse(doc_id) ==
    Ok([status |-> "ok", stored |-> Truthy(doc_id), id |-> doc_id])

---------------------------------------------------------------------------
(* The workers *)

Workers == {"w1", "w2"}

Idle(w) == request[w] = NoRequest /\ response[w] = NoResponse

\* A request, one of `requests`, arrives at an idle worker.
Receive(w, requests) ==
    /\ Idle(w)
    /\ \E r \in requests : request' = [request EXCEPT ![w] = r]
    /\ UNCHANGED <<SUPPORTED_CHAINS, db, database_imported, response,
                   create_document_result>>

\* A faulty variant: a served chain is dropped from the registry (a quota of
\* one call per chain kept in the shared list).
ProxyRpc_consuming(w) ==
    /\ request[w].op = "proxy_rpc"
    /\ response[w] = NoResponse
    /\ response' = [response EXCEPT
           ![w] = proxy_rpc(request[w].chain, Payload(request[w]), SUPPORTED_CHAINS)]
    /\ SUPPORTED_CHAINS' =
           SelectSeq(SUPPORTED_CHAINS, LAMBDA c : c.code # request[w].chain)
    /\ UNCHANGED <<db, database_imported, request, create_document_result>>

\* POST /api/rpc/{chain}
ProxyRpc(w) ==
    /\ request[w].op = "proxy_rpc"
    /\ response[w] = NoResponse
    /\ response' = [response EXCEPT
           ![w] = proxy_rpc(request[w].chain, Payload(request[w]), SUPPORTED_CHAINS)]
    /\ UNCHANGED <<SUPPORTED_CHAINS, db, database_imported, request,
                   create_document_result>>

\* POST /api/contact
SubmitContact(w) ==
    /\ request[w].op = "submit_contact"
    /\ response[w] = NoResponse
    /\ \E outcome \in (IF db # None
                       THEN CreateDocumentOutcomes(database_imported)
                       ELSE {NotCalled}) :
          /\ create_document_result' = [create_document_result EXCEPT ![w] = outcome]
          /\ response' = [response EXCEPT ![w] = ContactResponse(DocId(outcome))]
    /\ UNCHANGED <<SUPPORTED_CHAINS, db, database_imported, request>>

\* GET /api/chains
GetChains(w) ==
    /\ request[w].op = "get_chains"
    /\ response[w] = NoResponse
    /\ response' = [response EXCEPT ![w] = Ok([chains |-> SUPPORTED_CHAINS])]
    /\ UNCHANGED <<SUPPORTED_CHAINS, db, database_imported, request,
                   create_document_result>>

\* The response is sent and the worker is free again.
Respond(w) ==
    /\ response[w] # NoResponse
    /\ request' = [request EXCEPT ![w] = NoRequest]
    /\ response' = [response EXCEPT ![w] = NoResponse]
    /\ create_document_result' = [create_document_result EXCEPT ![w] = NotCalled]
    /\ UNCHANGED <<SUPPORTED_CHAINS, db, database_imported>>

\* The state once the module is loaded: the import of the database module
\* either succeeded (db is a handle, or None when no database is configured)
\* or failed (db = None).
Init ==
    /\ SUPPORTED_CHAINS = ChainRegistry
    /\ database_imported \in BOOLEAN
    /\ db \in (IF database_imported THEN {None, PyObject("Database")} ELSE {None})
    /\ request = [w \in Workers |-> NoRequest]
    /\ response = [w \in Workers |-> NoResponse]
    /\ create_document_result = [w \in Workers |-> NotCalled]

---------------------------------------------------------------------------
(* The requests the clients send *)

ETH == <<"E", "T", "H">>
Eth == <<"E", "t", "h">>
xrp == <<"x", "r", "p">>
eth_space == <<"e", "t", "h", " ">>

ChainInputs == {eth, bittensor, sui, dot, sol, ETH, Eth, xrp, eth_space, <<>>}

eth_blockNumber ==
    <<"e", "t", "h", "_", "b", "l", "o", "c", "k", "N", "u", "m", "b", "e", "r">>
ETH_BLOCKNUMBER ==
    <<"E", "T", "H", "_", "B", "L", "O", "C", "K", "N", "U", "M", "B", "E", "R">>
eth_blocKelvinnumber ==
    <<"e", "t", "h", "_", "b", "l", "o", "c", "U+212A", "n", "u", "m", "b", "e", "r">>
eth_blocknumber_space ==
    <<"e", "t", "h", "_", "b", "l", "o", "c", "k", "n", "u", "m", "b", "e", "r", " ">>
eth_getBalance ==
    <<"e", "t", "h", "_", "g", "e", "t", "B", "a", "l", "a", "n", "c", "e">>
sui_getLatestCheckpointSequence ==
    <<"s", "u", "i", "_", "g", "e", "t", "L", "a", "t", "e", "s", "t", "C", "h",
      "e", "c", "k", "p", "o", "i", "n", "t", "S", "e", "q", "u", "e", "n", "c", "e">>
suI_dotted_getlatestcheckpointsequence ==
    <<"s", "u", "U+0130", "_", "g", "e", "t", "l", "a", "t", "e", "s", "t", "c", "h",
      "e", "c", "k", "p", "o", "i", "n", "t", "s", "e", "q", "u", "e", "n", "c", "e">>
Subnet_Get_State ==
    <<"S", "u", "b", "n", "e", "t", ".", "G", "e", "t", "_", "S", "t", "a", "t", "e">>

MethodInputs ==
    { eth_blocknumber, eth_blockNumber, ETH_BLOCKNUMBER, eth_blocKelvinnumber,
      eth_blocknumber_space, eth_getBalance, sui_getLatestCheckpointSequence,
      suI_dotted_getlatestcheckpointsequence, subnet_get_state, Subnet_Get_State,
      <<>> }

latest == <<"l", "a", "t", "e", "s", "t">>

\* A JSON object with no fields.
EmptyObject == [f \in {} |-> None]

JsonrpcInputs == {EmptyObject, [jsonrpc |-> "2.0"], [jsonrpc |-> "1.0"]}

ParamsInputs ==
    { EmptyObject,
      [params |-> None],
      [params |-> PyList(<<>>)],
      [params |-> PyList(<<PyInt(1)>>)],
      [params |-> PyList(<<PyStr(latest), PyBool(FALSE)>>)],
      [params |-> PyList(<<PyBool(FALSE), PyStr(latest)>>)] }

IdInputs ==
    { EmptyObject,
      [id |-> None],
      [id |-> PyInt(0)],
      [id |-> PyBool(FALSE)],
      [id |-> PyStr(<<>>)],
      [id |-> PyInt(1)],
      [id |-> PyInt(7)],
      [id |-> PyStr(<<"a">>)] }

\* The RPCRequest bodies: method is required, the other fields optional.
BodyInputs ==
    { [method |-> m] @@ j @@ p @@ i :
        m \in MethodInputs, j \in JsonrpcInputs, p \in ParamsInputs, i \in IdInputs }

RpcRequest(chain, body) == [op |-> "proxy_rpc", chain |-> chain, body |-> body]
RpcRequestNoBody(chain) == [op |-> "proxy_rpc", chain |-> chain]

RpcRequests ==
    {RpcRequest(c, b) : c \in ChainInputs, b \in BodyInputs}
        \cup {RpcRequestNoBody(c) : c \in ChainInputs}

ContactRequests ==
    { [op |-> "submit_contact",
       msg |-> [name |-> <<"A", "d", "a">>,
                email |-> <<"a", "@", "b", ".", "c", "o">>,
                message |-> m]] :
        m \in { <<"h", "e", "l", "l", "o">>,
                <<"h", "e", "l", "l", "o", " ", "a", "g", "a", "i", "n">> } }

GetChainsRequest == [op |-> "get_chains"]

Requests == RpcRequests \cup ContactRequests \cup {GetChainsRequest}

\* One worker serving every request in turn.
Next ==
    \/ Receive("w1", Requests)
    \/ ProxyRpc("w1")
    \/ SubmitContact("w1")
    \/ GetChains("w1")
    \/ Respond("w1")

Spec == Init /\ [][Next]_vars


\* The uppercase letter of a lowercase ASCII letter; any other character itself.
UpperChar(c) ==
    IF \E i \in DOMAIN LowerLetters : LowerLetters[i] = c
    THEN UpperLetters[CHOOSE i \in DOMAIN LowerLetters : LowerLetters[i] = c]
    ELSE c

\* s with the characters at the positions of mask in upper case.
Recase(s, mask) == [i \in DOMAIN s |-> IF i \in mask THEN UpperChar(s[i]) ELSE s[i]]

\* The casings of a method include those with at most MaxCaps characters in
\* upper case and those with at most MaxCaps characters left in lower case.
MaxCaps == 2

RECURSIVE SubsetsUpTo(_, _)
SubsetsUpTo(S, k) ==
    IF k = 0 THEN {{}}
    ELSE LET P == SubsetsUpTo(S, k - 1) IN P \cup {q \cup {x} : q \in P, x \in S}

Casings(s) ==
    LET P == SubsetsUpTo(DOMAIN s, MaxCaps)
    IN  {Recase(s, m) : m \in P} \cup {Recase(s, DOMAIN s \ m) : m \in P}

CasingMethods ==
    Casings(eth_blocknumber) \cup Casings(sui_getlatestcheckpointsequence)
        \cup Casings(subnet_get_state)
        \cup { sui_getLatestCheckpointSequence, Subnet_Get_State,
               eth_blocKelvinnumber, suI_dotted_getlatestcheckpointsequence }

CasingRequests ==
    {RpcRequest(c, [method |-> m]) : c \in Codes(ChainRegistry), m \in CasingMethods}

\* One worker serving the canned methods in every casing, on every chain.
NextCasing ==
    \/ Receive("w1", CasingRequests)
    \/ ProxyRpc("w1")
    \/ Respond("w1")

SpecCasing == Init /\ [][NextCasing]_vars

ConcurrentRequests ==
    { RpcRequest(c, b) :
        c \in {eth, sui, xrp},
        b \in { [method |-> eth_blockNumber],
                [method |-> eth_blockNumber, id |-> PyInt(0)],
                [method |-> eth_getBalance, params |-> PyList(<<PyInt(1)>>)] } }
        \cup {RpcRequestNoBody(eth)}
        \cup ContactRequests
        \cup {GetChainsRequest}

\* The workers of the thread pool serving requests at the same time.
NextConcurrent ==
    \E w \in Workers :
        \/ Receive(w, ConcurrentRequests)
        \/ ProxyRpc(w)
        \/ SubmitContact(w)
        \/ GetChains(w)
        \/ Respond(w)

SpecConcurrent == Init /\ [][NextConcurrent]_vars

---------------------------------------------------------------------------
(* What the specification says of the dispatcher, in the model's terms *)

\* The five registered chain codes.
RegisteredCodes == {eth, bittensor, sui, dot, sol}

\* The table of canned results: (chain, lowercase method) -> result.
CannedTable ==
    { <<eth, eth_blocknumber, PyStr(hex_12ab34)>>,
      <<sui, sui_getlatestcheckpointsequence, PyInt(123456)>>,
      <<bittensor, subnet_get_state, PyDict([subnets |-> PyInt(32)])>> }

UnsupportedChain == [status |-> 404, detail |-> "Unsupported chain"]

\* Worker w has run proxy_rpc and holds its outcome.
RpcServed(w) == request[w].op = "proxy_rpc" /\ response[w] # NoResponse

HasBody(w) == "body" \in DOMAIN request[w]

\* The request of w has a method whose lowercase form is canned for its chain.
IsCanned(w) ==
    /\ HasBody(w)
    /\ \E e \in CannedTable :
          e[1] = request[w].chain /\ e[2] = str_lower(request[w].body.method)

\* The request of w is on a registered chain and gets the echo fallback.
EchoCase(w) ==
    RpcServed(w) /\ request[w].chain \in RegisteredCodes /\ ~IsCanned(w)

\* The result of a successful response is the echo fallback's.
IsEcho(resp) ==
    /\ resp.status = 200
    /\ resp.body.result.t = "dict"
    /\ DOMAIN resp.body.result.v = {"echo", "note"}

Echo(resp) == resp.body.result.v.echo.v

\* C1: for every chain that is not exactly one of the five registered codes,
\* and every request, proxy_rpc fails with UnsupportedChain (404, "Unsupported
\* chain") and returns no RPCResponse.
C1_UnsupportedChainFails ==
    \A w \in Workers :
        RpcServed(w) /\ request[w].chain \notin RegisteredCodes
            => /\ response[w] = UnsupportedChain
               /\ "body" \notin DOMAIN response[w]

\* A request for chain "ETH" with the canned method eth_blockNumber was
\* answered 404.
C1_Witness ==
    \E w \in Workers :
        /\ RpcServed(w) /\ HasBody(w)
        /\ request[w].chain = ETH
        /\ request[w].body.method = eth_blockNumber
        /\ response[w].status = 404

\* C3: on a registered chain, a method whose lowercase form is not canned for
\* that chain gets the echo fallback, with a note and echo.chain the requested
\* chain; UnsupportedChain is the only error proxy_rpc produces.
C3_UnknownMethodsEcho ==
    \A w \in Workers :
        /\ EchoCase(w) /\ HasBody(w)
              => /\ IsEcho(response[w])
                 /\ Echo(response[w]).chain = PyStr(request[w].chain)
        /\ RpcServed(w)
              => \/ response[w].status = 200
                 \/ /\ response[w] = UnsupportedChain
                    /\ request[w].chain \notin RegisteredCodes

\* eth_blockNumber, canned for eth, was echoed on sui.
C3_Witness ==
    \E w \in Workers :
        /\ EchoCase(w) /\ HasBody(w)
        /\ request[w].chain = sui
        /\ request[w].body.method = eth_blockNumber
        /\ IsEcho(response[w])
        /\ Echo(response[w]).chain = PyStr(sui)

\* The id the specification gives the response to the request of w.
ExpectedId(w) ==
    IF HasBody(w) /\ "id" \in DOMAIN request[w].body /\ request[w].body.id # None
    THEN request[w].body.id
    ELSE PyInt(1)

\* C4: in every response the id is the request's id when it is non-null
\* (falsy ids included) and 1 when the id is omitted or null.
C4_ResponseId ==
    \A w \in Workers :
        RpcServed(w) /\ response[w].status = 200
            => response[w].body.id = ExpectedId(w)

\* A canned result was returned with the falsy request id 0.
C4_Witness ==
    \E w \in Workers :
        /\ RpcServed(w) /\ HasBody(w) /\ IsCanned(w)
        /\ "id" \in DOMAIN request[w].body
        /\ request[w].body.id = PyInt(0)
        /\ response[w].status = 200
        /\ response[w].body.id = PyInt(0)

\* C5: in every response the jsonrpc field is "2.0", whatever the request's.
C5_ResponseJsonrpc ==
    \A w \in Workers :
        RpcServed(w) /\ response[w].status = 200
            => response[w].body.jsonrpc = "2.0"

\* A request with jsonrpc "1.0" got the echo fallback with jsonrpc "2.0".
C5_Witness ==
    \E w \in Workers :
        /\ EchoCase(w) /\ HasBody(w)
        /\ "jsonrpc" \in DOMAIN request[w].body
        /\ request[w].body.jsonrpc = "1.0"
        /\ response[w].body.jsonrpc = "2.0"

\* C6: in the echo fallback, echo.method is the request's method as sent, not
\* its lowercase form.
C6_EchoMethodCasing ==
    \A w \in Workers :
        EchoCase(w) /\ HasBody(w)
            => /\ IsEcho(response[w])
               /\ Echo(response[w]).method = PyStr(request[w].body.method)

\* eth_getBalance was echoed with its capital B.
C6_Witness ==
    \E w \in Workers :
        /\ EchoCase(w) /\ HasBody(w)
        /\ request[w].body.method = eth_getBalance
        /\ str_lower(eth_getBalance) # eth_getBalance
        /\ Echo(response[w]).method = PyStr(eth_getBalance)

\* The params the specification gives the echo of the request of w.
ExpectedParams(w) ==
    IF /\ HasBody(w)
       /\ "params" \in DOMAIN request[w].body
       /\ request[w].body.params # None
       /\ request[w].body.params # PyList(<<>>)
    THEN request[w].body.params
    ELSE PyList(<<>>)

\* C7: in the echo fallback, echo.params is the empty sequence when the
\* request's params are absent, null or empty, and otherwise the request's
\* params, in the same order.
C7_EchoParams ==
    \A w \in Workers :
        EchoCase(w)
            => /\ IsEcho(response[w])
               /\ Echo(response[w]).params = ExpectedParams(w)

\* The two-element params ["latest", false] were echoed in that order.
C7_Witness ==
    \E w \in Workers :
        /\ EchoCase(w) /\ HasBody(w)
        /\ "params" \in DOMAIN request[w].body
        /\ request[w].body.params = PyList(<<PyStr(latest), PyBool(FALSE)>>)
        /\ Echo(response[w]).params.v[1] = PyStr(latest)
        /\ Echo(response[w]).params.v[2] = PyBool(FALSE)

\* C9: a request with no body on a supported chain gets the echo fallback
\* with id 1, jsonrpc "2.0", echo.method null and echo.params empty, never a
\* canned result and never an error.
C9_NoBodyEcho ==
    \A w \in Workers :
        RpcServed(w) /\ ~HasBody(w) /\ request[w].chain \in RegisteredCodes
            => /\ IsEcho(response[w])
               /\ response[w].body.id = PyInt(1)
               /\ response[w].body.jsonrpc = "2.0"
               /\ Echo(response[w]).chain = PyStr(request[w].chain)
               /\ Echo(response[w]).method = None
               /\ Echo(response[w]).params = PyList(<<>>)

\* A request with no body on eth, a chain with a canned method, was echoed.
C9_Witness ==
    \E w \in Workers :
        /\ RpcServed(w) /\ ~HasBody(w)
        /\ request[w].chain = eth
        /\ IsEcho(response[w])
        /\ Echo(response[w]).method = None

ContactServed(w) == request[w].op = "submit_contact" /\ response[w] # NoResponse

\* C10: submit_contact answers status "ok"; stored is true exactly when
\* create_document returned a truthy id, which is then the response's id; when
\* db is None or create_document raised, stored is false and id is null.
C10_SubmitContact ==
    \A w \in Workers :
        ContactServed(w) =>
            LET out == create_document_result[w]
                body == response[w].body
                gotId == out.called /\ ~out.raised /\ Truthy(out.value)
            IN  /\ response[w].status = 200
                /\ body.status = "ok"
                /\ body.stored = gotId
                /\ gotId => body.id = out.value
                /\ db = None => ~out.called
                /\ (~out.called \/ out.raised)
                       => body.stored = FALSE /\ body.id = None

\* create_document raised and the contact was answered ok, not stored.
C10_Witness ==
    \E w \in Workers :
        /\ ContactServed(w)
        /\ create_document_result[w] = Raised
        /\ response[w].body = [status |-> "ok", stored |-> FALSE, id |-> None]

\* m is the method base in some casing.
IsCasingOf(m, base) ==
    /\ Len(m) = Len(base)
    /\ \A i \in DOMAIN base : m[i] = base[i] \/ m[i] = UpperChar(base[i])

\* C2: the method is matched against the canned table ignoring case: on eth,
\* sui and bittensor, every casing of the chain's canned method, and every
\* method that lowercases to it, gets the chain's canned result.
C2_CannedIgnoringCase ==
    \A w \in Workers :
        RpcServed(w) /\ HasBody(w) =>
            \A e \in CannedTable :
                /\ request[w].chain = e[1]
                /\ \/ IsCasingOf(request[w].body.method, e[2])
                   \/ str_lower(request[w].body.method) = e[2]
                => /\ response[w].status = 200
                   /\ response[w].body.result = e[3]

\* sui_getLatestCheckpointSequence, as the clients spell it, got 123456.
C2_Witness ==
    \E w \in Workers :
        /\ RpcServed(w) /\ HasBody(w)
        /\ request[w].chain = sui
        /\ request[w].body.method = sui_getLatestCheckpointSequence
        /\ response[w].status = 200
        /\ response[w].body.result = PyInt(123456)

\* C8: proxy_rpc has no side effect and is deterministic: the registry stays
\* as loaded, and two workers that served the same (chain, request) hold the
\* same outcome, whatever was served before or is being served beside them.
C8_Deterministic ==
    /\ SUPPORTED_CHAINS = ChainRegistry
    /\ \A w1, w2 \in Workers :
          RpcServed(w1) /\ RpcServed(w2) /\ request[w1] = request[w2]
              => response[w1] = response[w2]

\* Two workers hold the canned result of the same eth request at once.
C8_Witness ==
    /\ RpcServed("w1") /\ RpcServed("w2")
    /\ request["w1"] = RpcRequest(eth, [method |-> eth_blockNumber])
    /\ request["w2"] = request["w1"]
    /\ response["w1"].status = 200
    /\ response["w2"] = response["w1"]

=============================================================================
